---- MODULE Spec2Model ----
(***************************************************************************)
(* Model of the design generation and adaptive sampling engine of         *)
(* mturk_task_v2 (src/db.py): the HBase image / pair / task tables, the   *)
(* Get instance of every worker process (its scan cursor), and the        *)
(* operations get_n_images, gen_design, gen_task and register_task.       *)
(*                                                                         *)
(* Image identifiers are the integers 1..NumImages; their order is the    *)
(* row-key order of the image table.  Python's None is modelled by 0      *)
(* for an image identifier and by kind = "None" for a returned value.     *)
(***************************************************************************)
EXTENDS Integers, Sequences, FiniteSets, TLC

\* ---------------------------------------------------------------- bounds
NumImages == 3
MaxSurplus == 1
MaxTasks == 2
MaxN == 4
MaxJ == 3
MaxHistory == 1
MaxTime == 3

Images == 1..NumImages
Procs == {1, 2}
GroupSizes == {2, 3}
\* The arguments create_hit runs gen_task with: the configured number of
\* images per task, the literal group size 3, the configured target.
HitSizes == {3, 5}
HitGroupSizes == {3}
HitTargets == {1, 2}
NoImage == 0

VARIABLES
    is_active,          \* image table, metadata:is_active
    has_attr,           \* image table, attributes:<attribute> of the filter
    num_times_seen,     \* image table, stats:num_times_seen
    sampling_surplus,   \* image table, stats:sampling_surplus
    pair_table,         \* pair table: row key -> row
    task_table,         \* task table: task id -> row
    next_task_id,       \* the identifiers handed out by task_id_gen
    last_active_im,     \* Get._last_active_im of every process
    pc,                 \* position of every process
    req,                \* arguments of the call a process is running
    images,             \* the local set `images` of get_n_images
    fresh,              \* TRUE until the process's scanner yields first
    result,             \* the value the last call of a process returned
    search,             \* the Design Builder loop of gen_design
    worker_table,       \* worker table: worker id -> row
    now                 \* the clock of the server, in seconds

vars == <<is_active, has_attr, num_times_seen, sampling_surplus, pair_table,
          task_table, next_task_id, last_active_im, pc, req, images, fresh,
          result, search, worker_table, now>>

dbVars == <<is_active, has_attr, num_times_seen, sampling_surplus,
            pair_table, task_table, next_task_id>>

procVars == <<last_active_im, pc, req, images, fresh, result>>

lifeVars == <<worker_table, now>>

\* --------------------------------------------------------------- helpers
Min(S) == CHOOSE x \in S : \A y \in S : x <= y

Max(S) == CHOOSE x \in S : \A y \in S : x >= y

Range(s) == {s[k] : k \in DOMAIN s}

\* All orderings of a finite set, as sequences without repetition.
Orderings(S) ==
    {s \in [1..Cardinality(S) -> S] : \A a, b \in DOMAIN s : a # b => s[a] # s[b]}

\* conf.pair_to_tuple: the two identifiers in canonical (sorted) order.
pair_to_tuple(image1, image2) ==
    IF image1 <= image2 THEN <<image1, image2>> ELSE <<image2, image1>>

\* _get_pair_key: the row key of a pair, the sorted identifiers joined.
_get_pair_key(image1, image2) == pair_to_tuple(image1, image2)

\* itertools.combinations(im_tuple, 2): the position pairs a < b.
PositionPairs(im_tuple) ==
    {ab \in (DOMAIN im_tuple) \X (DOMAIN im_tuple) : ab[1] < ab[2]}

\* The canonical pairs of one tuple.
TuplePairs(im_tuple) ==
    {pair_to_tuple(im_tuple[ab[1]], im_tuple[ab[2]]) : ab \in PositionPairs(im_tuple)}

\* ------------------------------------------------ itertools.combinations
\* comb(range(n), t) in lexicographic order; indices are 1-based here.
FirstComb(t) == [k \in 1..t |-> k]

HasNextComb(c, n) == \E i \in DOMAIN c : c[i] < n - Len(c) + i

NextComb(c, n) ==
    LET i == Max({k \in DOMAIN c : c[k] < n - Len(c) + k})
    IN  [k \in DOMAIN c |-> IF k < i THEN c[k] ELSE c[i] + 1 + (k - i)]

\* ------------------------------------------------------ _tuple_permitted
\* A slip in lines 131-134: only the first pair of the tuple is looked up.
_tuple_permitted_FirstPair(im_tuple, ex_pairs) ==
    pair_to_tuple(im_tuple[1], im_tuple[2]) \notin ex_pairs \/ Len(im_tuple) > 2

\* Called by gen_design without a connection: only ex_pairs is consulted.
_tuple_permitted(im_tuple, ex_pairs) ==
    \A ab \in PositionPairs(im_tuple) :
        pair_to_tuple(im_tuple[ab[1]], im_tuple[ab[2]]) \notin ex_pairs

\* ------------------------------------------- gen_design, the search loop
\* The state of the loop of gen_design (lines 986-1020): the round iocc,
\* the combination c about to be examined, occ, obs and design.
SearchIdle ==
    [images |-> <<>>, n |-> 0, t |-> 0, j |-> 0, ex0 |-> {}, obs |-> {},
     occ |-> <<>>, design |-> <<>>, iocc |-> 0, c |-> <<>>,
     phase |-> "idle", ok |-> FALSE, steps |-> 0]

\* A slip in line 986: the search starts from an empty set of observed pairs.
SearchStart_NoHistory(ims, t, j, obs) ==
    [images |-> ims, n |-> Len(ims), t |-> t, j |-> j, ex0 |-> obs,
     obs |-> {}, occ |-> [k \in 1..Len(ims) |-> 0], design |-> <<>>,
     iocc |-> 0, c |-> IF t <= Len(ims) THEN FirstComb(t) ELSE <<>>,
     phase |-> IF t <= Len(ims) /\ t + j > 0 THEN "comb" ELSE "final",
     ok |-> FALSE, steps |-> 0]

SearchStart(ims, t, j, obs) ==
    [images |-> ims, n |-> Len(ims), t |-> t, j |-> j, ex0 |-> obs,
     obs |-> obs, occ |-> [k \in 1..Len(ims) |-> 0], design |-> <<>>,
     iocc |-> 0, c |-> IF t <= Len(ims) THEN FirstComb(t) ELSE <<>>,
     phase |-> IF t <= Len(ims) /\ t + j > 0 THEN "comb" ELSE "final",
     ok |-> FALSE, steps |-> 0]

SearchMinOcc(st) == Min(Range(st.occ))

\* A slip in line 1000: the test against the round number is missing.
SearchOccAllows_NoCap(st) ==
    LET occ_arr == {st.occ[st.c[k]] : k \in DOMAIN st.c}
    IN  ~(Min(occ_arr) >= st.j)

\* A slip in line 1000: the counters are compared with iocc + 1.
SearchOccAllows_CapPlusOne(st) ==
    LET occ_arr == {st.occ[st.c[k]] : k \in DOMAIN st.c}
    IN  /\ ~(Max(occ_arr) > st.iocc + 1)
        /\ ~(Min(occ_arr) >= st.j)

\* Lines 1000-1007: the occurrence tests on a permitted combination.
SearchOccAllows(st) ==
    LET occ_arr == {st.occ[st.c[k]] : k \in DOMAIN st.c}
    IN  /\ ~(Max(occ_arr) > st.iocc)
        /\ ~(Min(occ_arr) >= st.j)

\* Lines 996-1007: is the combination st.c accepted in round st.iocc?
SearchAccepts(st) ==
    LET cur_tuple == [k \in DOMAIN st.c |-> st.images[st.c[k]]]
    IN  /\ _tuple_permitted(cur_tuple, st.obs)
        /\ SearchOccAllows(st)

\* Lines 1010-1014: record the accepted combination.
SearchAccept(st) ==
    LET cur_tuple == [k \in DOMAIN st.c |-> st.images[st.c[k]]]
    IN  [st EXCEPT !.obs = @ \cup TuplePairs(cur_tuple),
                   !.occ = [i \in DOMAIN @ |->
                              IF i \in Range(st.c) THEN @[i] + 1 ELSE @[i]],
                   !.design = Append(@, cur_tuple)]

\* A slip in line 987: range(0, t + j + 1), one round too many.
SearchAdvance_OneMoreRound(st) ==
    IF HasNextComb(st.c, st.n)
    THEN [st EXCEPT !.c = NextComb(st.c, st.n)]
    ELSE IF st.iocc + 1 < st.t + st.j + 1
         THEN [st EXCEPT !.iocc = @ + 1, !.c = FirstComb(st.t)]
         ELSE [st EXCEPT !.phase = "final"]

\* A slip in line 987: the rounds never end, the combinations start over.
SearchAdvance_Restart(st) ==
    IF HasNextComb(st.c, st.n)
    THEN [st EXCEPT !.c = NextComb(st.c, st.n)]
    ELSE [st EXCEPT !.c = FirstComb(st.t)]

\* The two for statements (lines 987, 991): the next combination, the
\* next round, or the end of range(0, t + j).
SearchAdvance(st) ==
    IF HasNextComb(st.c, st.n)
    THEN [st EXCEPT !.c = NextComb(st.c, st.n)]
    ELSE IF st.iocc + 1 < st.t + st.j
         THEN [st EXCEPT !.iocc = @ + 1, !.c = FirstComb(st.t)]
         ELSE [st EXCEPT !.phase = "final"]

\* A slip in lines 1015-1020: the design is returned without the test.
SearchFinal_NoTest(st) == [st EXCEPT !.phase = "returned", !.ok = TRUE]

\* Lines 1015-1020: the test after the loops.
SearchFinal(st) ==
    IF ~(SearchMinOcc(st) >= st.j)
    THEN [st EXCEPT !.phase = "returned", !.ok = FALSE]
    ELSE [st EXCEPT !.phase = "returned", !.ok = TRUE]

\* A slip in line 992: the largest counter is tested instead of the least.
SearchDone_AnyImage(st) == Max(Range(st.occ)) = st.j

\* Line 992: np.min(occ) == j, the design is complete.
SearchDone(st) == SearchMinOcc(st) = st.j

\* One iteration of the inner loop, or the final test.
SearchStep(st) ==
    IF st.phase = "final"
    THEN SearchFinal(st)
    ELSE IF SearchDone(st)
         THEN [st EXCEPT !.phase = "returned", !.ok = TRUE]
         ELSE LET st1 == IF SearchAccepts(st) THEN SearchAccept(st) ELSE st
              IN  [SearchAdvance(st1) EXCEPT !.steps = @ + 1]

RECURSIVE SearchRun(_)
SearchRun(st) ==
    IF st.phase = "returned" THEN st ELSE SearchRun(SearchStep(st))

\* The value gen_design returns: the design, or None (no tuples).
SearchResult(st) == IF st.ok THEN st.design ELSE <<>>

\* ------------------------------------------------------ the HBase tables
IMAGE_TABLE == "images"

PAIR_TABLE == "pairs"

\* The columns _get_preexisting_pairs asks its scan for.
PairColumns == {"metadata:im_id1", "metadata:im_id2"}

\* The rows of the image table: one per image, keyed by the image id
\* (_get_image_dict, register_task's counters); none has a pair column.
ImageRows ==
    {[key |-> <<i>>,
      columns |-> {"metadata:is_active", "stats:num_times_seen",
                   "stats:sampling_surplus"},
      im_id1 |-> NoImage, im_id2 |-> NoImage] : i \in Images}

\* The rows of the pair table, as _get_pair_dict builds them.
PairRows ==
    {[key |-> k,
      columns |-> {"metadata:im_id1", "metadata:im_id2", "metadata:task_id"},
      im_id1 |-> pair_table[k].im_id1, im_id2 |-> pair_table[k].im_id2]
        : k \in DOMAIN pair_table}

\* conn.table(name)
conn_table(name) ==
    IF name = IMAGE_TABLE THEN ImageRows
    ELSE IF name = PAIR_TABLE THEN PairRows ELSE {}

\* table.scan(row_prefix=..., columns=...): the rows whose key starts with
\* the prefix and that have at least one of the columns (a row without any
\* of the columns is not emitted, see image_get_min_seen).
scan_prefix(rows, row_prefix, columns) ==
    {r \in rows : r.key[1] = row_prefix /\ r.columns \cap columns # {}}

\* _get_preexisting_pairs(conn, images)
_get_preexisting_pairs(ims) ==
    LET table == conn_table(IMAGE_TABLE)
        im_set == Range(ims)
        rows == UNION {scan_prefix(table, im1, PairColumns) : im1 \in im_set}
    IN  {pair_to_tuple(r.im_id1, r.im_id2) :
            r \in {x \in rows : x.im_id1 \in im_set /\ x.im_id2 \in im_set}}

\* --------------------------------------------------- the active-image scan
\* conf.attribute_image_filter(image_attributes, only_active=True): the
\* active images that carry the attribute.
Pool == {i \in Images : is_active[i] /\ has_attr[i]}

\* get_n_active_images_count
get_n_active_images_count == Cardinality(Pool)

\* table.scan(row_start=...): the filtered rows from row_start on, inclusive.
RowsFrom(row_start) == {i \in Pool : i >= row_start}

\* A slip in lines 780-785: the row the scan starts on is not omitted.
ScannerSkip_Inclusive(last) ==
    IF last = NoImage THEN 0 ELSE last - 1

\* get_active_image_scanner, lines 776-791: the position of a new scanner
\* after the row it skips (0: nothing consumed, the scan starts over).
ScannerSkip(last) ==
    IF last = NoImage THEN 0
    ELSE IF RowsFrom(last) = {} THEN 0
    ELSE Min(RowsFrom(last))

\* get_active_image_scanner, lines 792-803: the next identifier yielded by a
\* scanner that has consumed the rows up to pos; it wraps around.
ScannerYield(pos) ==
    LET rest == {i \in Pool : i > pos}
    IN  IF rest = {} THEN Min(Pool) ELSE Min(rest)

\* generator.next() of process p
GeneratorNext(p) ==
    ScannerYield(IF fresh[p] THEN ScannerSkip(last_active_im[p])
                 ELSE last_active_im[p])

\* ------------------------------------------------- get_n_images, pieces
\* A slip in line 931: the pool may be one image short.
InsufficientPool_OffByOne(n, count) == n > count + 1

\* Line 931: n > count, too few active images.
InsufficientPool(n, count) == n > count

\* A slip in line 939: the loop stops one image early.
SamplingGoesOn_OneShort(ims, n) == Cardinality(ims) < n - 1

\* A slip in line 939: the loop goes on while len(images) <= n.
SamplingGoesOn_UntilMore(ims, n) == Cardinality(ims) <= n

\* Line 939: the loop of get_n_images goes on while len(images) < n.
SamplingGoesOn(ims, n) == Cardinality(ims) < n

\* A slip in line 946: an image with one credit left is accepted already.
SampleAdds_CreditOne(is_practice, sd) == is_practice \/ sd <= 1

\* Lines 943-947: is im_id added to images, its surplus credit being sd?
SampleAdds(is_practice, sd) == is_practice \/ sd <= 0

\* A slip in lines 946-949: the credit is decremented without the else.
SampleDecrements_Always(is_practice, sd) == TRUE

\* Lines 946-949: is the surplus credit of im_id decremented?
SampleDecrements(is_practice, sd) == ~(sd <= 0)

\* -------------------------------------------------------- gen_task, pieces
STORE_PRACTICE_PAIRS == FALSE

RANDOMIZE_SEGMENT_ORDER == FALSE

KEEP_BLOCK == "keep"

REJECT_BLOCK == "reject"

RECURSIVE ConcatAll(_)
ConcatAll(ss) == IF ss = <<>> THEN <<>> ELSE Head(ss) \o ConcatAll(Tail(ss))

\* Lines 1112-1116: the index of an image in order of first occurrence
\* across the tuple list (0-based, as len(global_image_idx_map)).
global_image_idx_map(image_tuples, image) ==
    LET flat == ConcatAll(image_tuples)
        first == Min({k \in DOMAIN flat : flat[k] = image})
    IN  Cardinality({flat[k] : k \in 1..(first - 1)})

\* The outcomes of np.random.shuffle in _shuffle_tuples: an order of the
\* tuple positions and, for every tuple, an order of its positions.
Shuffles(image_tuples) ==
    {[tup_indices |-> pi, within |-> w] :
        pi \in Orderings(DOMAIN image_tuples),
        w \in [DOMAIN image_tuples ->
                 UNION {Orderings(DOMAIN image_tuples[k]) : k \in DOMAIN image_tuples}]}

\* A slip in line 348: the indices are returned unshuffled.
_shuffle_tuples_IdentityIdxs(image_tuples, sh) ==
    [tuples |-> [k \in DOMAIN image_tuples |->
                   [m \in DOMAIN image_tuples[sh.tup_indices[k]] |->
                      image_tuples[sh.tup_indices[k]][sh.within[k][m]]]],
     idxs |-> [k \in DOMAIN image_tuples |-> k]]

\* _shuffle_tuples: the shuffled tuples and the positions they came from
\* (positions are 1-based here).
_shuffle_tuples(image_tuples, sh) ==
    [tuples |-> [k \in DOMAIN image_tuples |->
                   [m \in DOMAIN image_tuples[sh.tup_indices[k]] |->
                      image_tuples[sh.tup_indices[k]][sh.within[k][m]]]],
     idxs |-> sh.tup_indices]

\* conf.chunks(l, k): l cut into k contiguous pieces, as evenly as possible.
chunks(l, k) ==
    [i \in 1..k |-> SubSeq(l, ((i - 1) * Len(l)) \div k + 1, (i * Len(l)) \div k)]

\* A slip in lines 1129-1130: the map is built from the tuple of the design,
\* in its original image order, not from the shuffled tuple.
MakeBlock_UnshuffledMap(image_tuples, kt, kt_idxs, type) ==
    [images |-> kt,
     image_idx_map |-> [x \in DOMAIN kt |->
                          [y \in DOMAIN kt[x] |->
                             global_image_idx_map(image_tuples,
                                                  image_tuples[kt_idxs[x]][y])]],
     type |-> type,
     global_tup_idxs |-> kt_idxs]

\* Lines 1126-1145: one block.
MakeBlock(image_tuples, kt, kt_idxs, type) ==
    [images |-> kt,
     image_idx_map |-> [x \in DOMAIN kt |->
                          [y \in DOMAIN kt[x] |->
                             global_image_idx_map(image_tuples, kt[x][y])]],
     type |-> type,
     global_tup_idxs |-> kt_idxs]

\* A slip in line 1147: the loop runs only while both lists have blocks.
Interleave_WhileBoth(keep_blocks, reject_blocks) ==
    [b \in 1..(2 * Min({Len(keep_blocks), Len(reject_blocks)})) |->
        IF b % 2 = 1 THEN keep_blocks[(b + 1) \div 2]
        ELSE reject_blocks[b \div 2]]

\* A slip in lines 1148-1151: the reject block is appended first.
Interleave_RejectFirst(keep_blocks, reject_blocks) ==
    [b \in 1..(Len(keep_blocks) + Len(reject_blocks)) |->
        LET both == Min({Len(keep_blocks), Len(reject_blocks)})
        IN  IF b <= 2 * both
            THEN (IF b % 2 = 1 THEN reject_blocks[(b + 1) \div 2]
                  ELSE keep_blocks[b \div 2])
            ELSE IF Len(keep_blocks) > both THEN keep_blocks[b - both]
            ELSE reject_blocks[b - both]]

\* Lines 1146-1151: keep and reject blocks alternate, keep first.
RECURSIVE Interleave(_, _)
Interleave(keep_blocks, reject_blocks) ==
    IF keep_blocks = <<>> /\ reject_blocks = <<>> THEN <<>>
    ELSE (IF keep_blocks # <<>> THEN <<Head(keep_blocks)>> ELSE <<>>)
         \o (IF reject_blocks # <<>> THEN <<Head(reject_blocks)>> ELSE <<>>)
         \o Interleave(IF keep_blocks # <<>> THEN Tail(keep_blocks) ELSE <<>>,
                       IF reject_blocks # <<>> THEN Tail(reject_blocks) ELSE <<>>)

\* Lines 1118-1151: the blocks of a task, for the two shuffles drawn.
GenTaskBlocks(image_tuples, n_keep_blocks, n_reject_blocks, ksh, rsh) ==
    LET keep == _shuffle_tuples(image_tuples, ksh)
        rej == _shuffle_tuples(image_tuples, rsh)
        keep_tuples == chunks(keep.tuples, n_keep_blocks)
        keep_idxs == chunks(keep.idxs, n_keep_blocks)
        reject_tuples == chunks(rej.tuples, n_reject_blocks)
        reject_idxs == chunks(rej.idxs, n_reject_blocks)
    IN  Interleave(
          [b \in 1..n_keep_blocks |->
             MakeBlock(image_tuples, keep_tuples[b], keep_idxs[b], KEEP_BLOCK)],
          [b \in 1..n_reject_blocks |->
             MakeBlock(image_tuples, reject_tuples[b], reject_idxs[b], REJECT_BLOCK)])

\* Line 1156: exp_seq, one [type, tuples] segment per block.
ExpSeq(blocks) == [b \in DOMAIN blocks |-> <<blocks[b].type, blocks[b].images>>]

\* --------------------------------------------------- register_task, pieces
\* Line 1533: im_tuples, the tuples of all segments in order.
ExpSeqTuples(exp_seq) == ConcatAll([s \in DOMAIN exp_seq |-> exp_seq[s][2]])

\* Lines 1521-1530: how often an image is appended to image_list (with
\* check_ims an inactive image is skipped).
ImageListCount(exp_seq, check_ims, img) ==
    LET flat == ConcatAll(ExpSeqTuples(exp_seq))
    IN  IF check_ims /\ ~is_active[img] THEN 0
        ELSE Cardinality({k \in DOMAIN flat : flat[k] = img})

\* Lines 1531-1532: pair_list.
PairList(exp_seq) ==
    LET tups == ExpSeqTuples(exp_seq)
    IN  UNION {TuplePairs(tups[k]) : k \in DOMAIN tups}

\* Lines 1538-1552: the columns register_task puts for the task.
TaskRow(is_practice, exp_seq, blocks) ==
    [is_practice |-> is_practice,
     tuples |-> ExpSeqTuples(exp_seq),
     blocks |-> blocks,
     awaiting_serve |-> TRUE,
     awaiting_hit_type |-> TRUE]

\* _get_pair_dict
_get_pair_dict(image1, image2, task_id) ==
    [im_id1 |-> IF image1 > image2 THEN image2 ELSE image1,
     im_id2 |-> IF image1 > image2 THEN image1 ELSE image2,
     task_id |-> task_id]

\* Lines 1556-1561: the pair table after the batch of puts.
PutPairs(table, pair_list, task_id) ==
    LET keys == {_get_pair_key(pr[1], pr[2]) : pr \in pair_list}
    IN  [k \in DOMAIN table \cup keys |->
           IF k \in keys THEN _get_pair_dict(k[1], k[2], task_id) ELSE table[k]]

\* ------------------------------------------------------------ Init
FreshDb ==
    /\ is_active = [i \in Images |-> TRUE]
    /\ has_attr = [i \in Images |-> TRUE]
    /\ num_times_seen = [i \in Images |-> 0]
    /\ sampling_surplus = [i \in Images |-> 0]
    /\ pair_table = <<>>
    /\ task_table = <<>>
    /\ next_task_id = 1

NoResult ==
    [kind |-> "nothing", caller |-> "none", n |-> 0, images |-> <<>>,
     tuples |-> <<>>, blocks |-> <<>>, exp_seq |-> <<>>, task_id |-> 0,
     is_practice |-> FALSE, t |-> 0, j |-> 0, occ |-> <<>>]

\* Python's None as a returned value.
ReturnedNone == [NoResult EXCEPT !.kind = "None"]

NoReq ==
    [caller |-> "none", n |-> 0, is_practice |-> FALSE, count |-> 0,
     task_id |-> 0]

\* No worker has been seen yet; the clock starts at 0.
NoWorkers ==
    /\ worker_table = <<>>
    /\ now = 0

IdleProcs ==
    /\ last_active_im = [p \in Procs |-> NoImage]
    /\ pc = [p \in Procs |-> "idle"]
    /\ req = [p \in Procs |-> NoReq]
    /\ images = [p \in Procs |-> {}]
    /\ fresh = [p \in Procs |-> TRUE]
    /\ result = [p \in Procs |-> NoResult]

Init ==
    /\ NoWorkers
    /\ FreshDb
    /\ IdleProcs
    /\ search = SearchIdle

\* ------------------------------------------------------------ get_n_images
\* Lines 928-938: the entry of get_n_images(n, is_practice=...) in process
\* p, called by `caller`; with too few active images it returns None.
EnterGetNImages(p, caller, n, is_practice, task_id) ==
    LET count == get_n_active_images_count
    IN  /\ images' = [images EXCEPT ![p] = {}]
        /\ fresh' = [fresh EXCEPT ![p] = TRUE]
        /\ IF InsufficientPool(n, count)
           THEN /\ pc' = [pc EXCEPT ![p] = "idle"]
                /\ req' = [req EXCEPT ![p] = NoReq]
                /\ result' = [result EXCEPT ![p] =
                                [ReturnedNone EXCEPT !.caller = caller, !.n = n]]
           ELSE /\ pc' = [pc EXCEPT ![p] = "sampling"]
                /\ req' = [req EXCEPT ![p] =
                             [caller |-> caller, n |-> n,
                              is_practice |-> is_practice,
                              count |-> count, task_id |-> task_id]]
                /\ result' = [result EXCEPT ![p] = NoResult]
        /\ UNCHANGED last_active_im

\* A direct call of Get.get_n_images.
StartGetNImages(p, n, is_practice) ==
    /\ pc[p] = "idle"
    /\ EnterGetNImages(p, "get_n_images", n, is_practice, 0)
    /\ UNCHANGED <<dbVars, search, lifeVars>>

\* A direct call of Get.gen_design (lines 976-982).
StartGenDesign(p, n) ==
    /\ pc[p] = "idle"
    /\ EnterGetNImages(p, "gen_design", n, FALSE, 0)
    /\ UNCHANGED <<dbVars, search, lifeVars>>

\* create_hit: gen_task draws the task id (lines 1081-1084), then calls
\* gen_design, which calls get_n_images.
StartCreateHit(p, n) ==
    /\ pc[p] = "idle"
    /\ next_task_id <= MaxTasks
    /\ next_task_id' = next_task_id + 1
    /\ EnterGetNImages(p, "create_hit", n, FALSE, next_task_id)
    /\ UNCHANGED <<is_active, has_attr, num_times_seen, sampling_surplus,
                   pair_table, task_table, search, lifeVars>>

\* A direct call of Get.gen_task(n, t, j, n_keep_blocks=1, n_reject_blocks=1):
\* the task id is drawn (lines 1081-1084), then gen_design is called.
StartGenTask(p, n) ==
    /\ pc[p] = "idle"
    /\ next_task_id <= MaxTasks
    /\ next_task_id' = next_task_id + 1
    /\ EnterGetNImages(p, "gen_task", n, FALSE, next_task_id)
    /\ UNCHANGED <<is_active, has_attr, num_times_seen, sampling_surplus,
                   pair_table, task_table, search, lifeVars>>

\* conf.practice_id_gen(): the identifier of a practice, drawn apart from
\* the identifiers of the real tasks.
practice_id_gen == 0

\* A call of Get.gen_task(n, t, j, n_keep_blocks=1, n_reject_blocks=1,
\* practice=True): the practice id is drawn (lines 1081-1082), then
\* gen_design is called, which calls get_n_images without is_practice
\* (lines 1107-1108, 979), so that it takes its default, False.
StartGenPractice(p, n) ==
    /\ pc[p] = "idle"
    /\ EnterGetNImages(p, "gen_practice", n, FALSE, practice_id_gen)
    /\ UNCHANGED <<dbVars, search, lifeVars>>

\* Lines 939-949: one iteration of the loop of get_n_images; skip is the
\* outcome of np.random.rand() > prob, which cannot happen when prob = 1.
SampleDraw(p, skip) ==
    /\ pc[p] = "sampling"
    /\ SamplingGoesOn(images[p], req[p].n)
    /\ Pool # {}
    /\ skip => req[p].n < req[p].count
    /\ LET im_id == GeneratorNext(p)
           sd == sampling_surplus[im_id]
       IN  /\ last_active_im' = [last_active_im EXCEPT ![p] = im_id]
           /\ fresh' = [fresh EXCEPT ![p] = FALSE]
           /\ IF skip
              THEN UNCHANGED <<images, sampling_surplus>>
              ELSE /\ images' =
                        [images EXCEPT ![p] =
                           IF SampleAdds(req[p].is_practice, sd)
                           THEN @ \cup {im_id} ELSE @]
                   /\ sampling_surplus' =
                        [sampling_surplus EXCEPT ![im_id] =
                           IF SampleDecrements(req[p].is_practice, sd)
                           THEN @ - 1 ELSE @]
    /\ UNCHANGED <<is_active, has_attr, num_times_seen, pair_table,
                   task_table, next_task_id, pc, req, result, search, lifeVars>>

SampleStep(p) == \E skip \in BOOLEAN : SampleDraw(p, skip)

\* A call returns: its arguments and locals are gone.
ReturnToIdle(p) ==
    /\ pc' = [pc EXCEPT ![p] = "idle"]
    /\ req' = [req EXCEPT ![p] = NoReq]
    /\ images' = [images EXCEPT ![p] = {}]
    /\ fresh' = [fresh EXCEPT ![p] = TRUE]

\* Line 950: get_n_images returns list(images) to a direct caller.
ReturnImages(p) ==
    /\ pc[p] = "sampling"
    /\ ~SamplingGoesOn(images[p], req[p].n)
    /\ req[p].caller = "get_n_images"
    /\ \E lst \in Orderings(images[p]) :
         result' = [result EXCEPT ![p] =
                      [NoResult EXCEPT !.kind = "images", !.images = lst,
                                       !.caller = req[p].caller,
                                       !.n = req[p].n,
                                       !.is_practice = req[p].is_practice]]
    /\ ReturnToIdle(p)
    /\ UNCHANGED <<dbVars, last_active_im, search, lifeVars>>

\* -------------------------------------------------------------- gen_design
\* Lines 983-1020 for the image list ims (list(images) shuffled).
gen_design(ims, t, j) ==
    SearchRun(SearchStart(ims, t, j, _get_preexisting_pairs(ims)))

\* A direct call of gen_design returns the design or None.
FinishGenDesign(p) ==
    /\ pc[p] = "sampling"
    /\ ~SamplingGoesOn(images[p], req[p].n)
    /\ req[p].caller = "gen_design"
    /\ \E t \in GroupSizes, j \in HitTargets, ims \in Orderings(images[p]) :
         LET st == gen_design(ims, t, j)
         IN  result' = [result EXCEPT ![p] =
                          [NoResult EXCEPT
                             !.kind = IF st.ok THEN "design" ELSE "None",
                             !.caller = req[p].caller, !.n = req[p].n,
                             !.images = ims,
                             !.tuples = SearchResult(st),
                             !.t = t, !.j = j, !.occ = st.occ]]
    /\ ReturnToIdle(p)
    /\ UNCHANGED <<dbVars, last_active_im, search, lifeVars>>

\* ---------------------------------------------------------------- gen_task
\* Lines 1107-1160: the value gen_task returns for the design search st.
gen_task(st, task_id, practice, n_keep_blocks, n_reject_blocks, ksh, rsh, order) ==
    IF ~st.ok
    THEN [ReturnedNone EXCEPT !.caller = "gen_task", !.n = st.n,
                              !.images = st.images, !.t = st.t, !.j = st.j,
                              !.occ = st.occ]
    ELSE LET interleaved == GenTaskBlocks(st.design, n_keep_blocks,
                                          n_reject_blocks, ksh, rsh)
             blocks == [b \in DOMAIN interleaved |-> interleaved[order[b]]]
         IN  [kind |-> "task", caller |-> "gen_task", n |-> st.n,
              images |-> st.images, tuples |-> st.design,
              blocks |-> blocks, exp_seq |-> ExpSeq(blocks),
              task_id |-> task_id, is_practice |-> practice,
              t |-> st.t, j |-> st.j, occ |-> st.occ]

\* The block orders np.random.shuffle(blocks) can leave (line 1152).
BlockOrders(n_blocks, random_segment_order) ==
    IF random_segment_order THEN Orderings(1..n_blocks)
    ELSE {[b \in 1..n_blocks |-> b]}

\* gen_task(n, t, j, n_keep_blocks=1, n_reject_blocks=1, ...) comes back,
\* to create_hit (lines 116-118) or to a direct caller, who may have asked
\* for a practice; create_hit is used for real tasks only, never for
\* practices, and goes on to register_task.
\* When gen_task returns None the call of register_task raises and the
\* background task ends.
FinishGenTask(p) ==
    /\ pc[p] = "sampling"
    /\ ~SamplingGoesOn(images[p], req[p].n)
    /\ req[p].caller \in {"create_hit", "gen_task", "gen_practice"}
    /\ \E t \in HitGroupSizes, j \in HitTargets, ims \in Orderings(images[p]) :
         LET st == gen_design(ims, t, j)
         IN  \E ksh \in Shuffles(SearchResult(st)),
                rsh \in Shuffles(SearchResult(st)),
                order \in BlockOrders(2, RANDOMIZE_SEGMENT_ORDER) :
               LET res == gen_task(st, req[p].task_id,
                                   req[p].caller = "gen_practice", 1, 1,
                                   ksh, rsh, order)
               IN  /\ result' = [result EXCEPT ![p] = res]
                   /\ pc' = [pc EXCEPT ![p] =
                               IF res.kind = "task" /\ req[p].caller = "create_hit"
                               THEN "designed" ELSE "idle"]
    /\ req' = [req EXCEPT ![p] = NoReq]
    /\ images' = [images EXCEPT ![p] = {}]
    /\ fresh' = [fresh EXCEPT ![p] = TRUE]
    /\ UNCHANGED <<dbVars, last_active_im, search, lifeVars>>

\* ----------------------------------------------------------- register_task
\* create_hit, line 120: register_task(task_id, exp_seq, attribute,
\* blocks=..., is_practice=..., check_ims=True, ...).
RegisterTask(p) ==
    /\ pc[p] = "designed"
    /\ LET task_id == result[p].task_id
           exp_seq == result[p].exp_seq
           is_practice == result[p].is_practice
           pair_list == PairList(exp_seq)
       IN  /\ num_times_seen' =
                [i \in Images |->
                   IF ~is_practice
                   THEN num_times_seen[i] + ImageListCount(exp_seq, TRUE, i)
                   ELSE num_times_seen[i]]
           /\ task_table' =
                [k \in DOMAIN task_table \cup {task_id} |->
                   IF k = task_id
                   THEN TaskRow(is_practice, exp_seq, result[p].blocks)
                   ELSE task_table[k]]
           /\ pair_table' =
                IF is_practice /\ ~STORE_PRACTICE_PAIRS
                THEN pair_table
                ELSE PutPairs(pair_table, pair_list, task_id)
    /\ pc' = [pc EXCEPT ![p] = "idle"]
    /\ result' = [result EXCEPT ![p] = NoResult]
    /\ UNCHANGED <<is_active, has_attr, sampling_surplus, next_task_id,
                   last_active_im, req, images, fresh, search, lifeVars>>

\* ------------------------------------------------------- the whole system
\* Worker processes run create_hit concurrently on one database.
Next ==
    \E p \in Procs :
        \/ \E n \in HitSizes : StartCreateHit(p, n)
        \/ SampleStep(p)
        \/ FinishGenTask(p)
        \/ RegisterTask(p)

Spec == Init /\ [][Next]_vars

\* One process runs create_hit again and again: the cycles do not overlap.
NextSeq ==
    \/ \E n \in HitSizes : StartCreateHit(1, n)
    \/ SampleStep(1)
    \/ FinishGenTask(1)
    \/ RegisterTask(1)

SpecSeq == Init /\ [][NextSeq]_vars

\* Calls of Get.gen_task on their own, nothing registered in between.
NextTask ==
    \/ \E n \in HitSizes : StartGenTask(1, n)
    \/ SampleStep(1)
    \/ FinishGenTask(1)

SpecTask == Init /\ [][NextTask]_vars

\* ------------------------------------------- calls of Get on a given pool
\* The image table as earlier registrations, activations and sampling
\* passes can have left it, seen by a new Get instance.  Images that were
\* never activated or never matched have no surplus credit.
InitGet ==
    /\ NoWorkers
    /\ is_active \in [Images -> BOOLEAN]
    /\ has_attr \in {[i \in Images |-> TRUE], [i \in Images |-> i # 1]}
    /\ sampling_surplus \in [Images -> 0..MaxSurplus]
    /\ \A i \in Images : ~(is_active[i] /\ has_attr[i]) => sampling_surplus[i] = 0
    /\ num_times_seen = sampling_surplus
    /\ pair_table = <<>>
    /\ task_table = <<>>
    /\ next_task_id = 1
    /\ last_active_im = [p \in Procs |-> NoImage]
    /\ pc = [p \in Procs |-> "idle"]
    /\ req = [p \in Procs |-> NoReq]
    /\ images = [p \in Procs |-> {}]
    /\ fresh = [p \in Procs |-> TRUE]
    /\ result = [p \in Procs |-> NoResult]
    /\ search = SearchIdle

NextGet ==
    \/ \E n \in 1..NumImages, is_practice \in BOOLEAN :
         StartGetNImages(1, n, is_practice)
    \/ \E n \in 1..NumImages : StartGenDesign(1, n)
    \/ SampleStep(1)
    \/ ReturnImages(1)
    \/ FinishGenDesign(1)

SpecGet == InitGet /\ [][NextGet]_vars

\* Sampling passes, one after the other, of one Get instance on a pool that
\* does not change and in which no image has surplus credit.
InitScan ==
    /\ InitGet
    /\ sampling_surplus = [i \in Images |-> 0]

NextScan ==
    \/ \E n \in 1..NumImages, is_practice \in BOOLEAN :
         StartGetNImages(1, n, is_practice)
    \/ SampleStep(1)
    \/ ReturnImages(1)

SpecScan == InitScan /\ [][NextScan]_vars

\* ------------------------------------------------------- activate_images
\* _reset_sampling_counts: the surplus credit of every active image is set
\* to its num_times_seen.
_reset_sampling_counts(active) ==
    [i \in Images |-> IF active[i] THEN num_times_seen[i] ELSE sampling_surplus[i]]

\* activate_images(image_ids): the images are made active, then the
\* surplus credits are reset.
ActivateImages(image_ids) ==
    /\ is_active' = [i \in Images |-> is_active[i] \/ i \in image_ids]
    /\ sampling_surplus' = _reset_sampling_counts(is_active')
    /\ UNCHANGED <<has_attr, num_times_seen, pair_table, task_table,
                   next_task_id, procVars, search, lifeVars>>

\* The exposure counts earlier tasks can have left: the first k images in
\* row-key order have been seen s times, the others never.
SeenPatterns ==
    {[i \in Images |-> IF i <= k THEN s ELSE 0] : k \in 0..NumImages, s \in 0..MaxSurplus}

\* Images that were shown in earlier tasks and are all inactive; they are
\* activated in chunks while a Get instance draws samples.
InitReset ==
    /\ NoWorkers
    /\ is_active = [i \in Images |-> FALSE]
    /\ has_attr = [i \in Images |-> TRUE]
    /\ num_times_seen \in SeenPatterns
    /\ sampling_surplus = [i \in Images |-> 0]
    /\ pair_table = <<>>
    /\ task_table = <<>>
    /\ next_task_id = 1
    /\ IdleProcs
    /\ search = SearchIdle

NextReset ==
    \/ \E image_ids \in SUBSET Images : ActivateImages(image_ids)
    \/ \E n \in 1..NumImages, is_practice \in BOOLEAN :
         StartGetNImages(1, n, is_practice)
    \/ SampleStep(1)
    \/ ReturnImages(1)

SpecReset == InitReset /\ [][NextReset]_vars

\* One sampling pass of a Get instance on a pool that does not change: all
\* images are active and match, the credits are as the last reset set them,
\* the cursor is where earlier passes left it.
InitPass ==
    /\ NoWorkers
    /\ is_active = [i \in Images |-> TRUE]
    /\ has_attr = [i \in Images |-> TRUE]
    /\ num_times_seen \in SeenPatterns
    /\ sampling_surplus = num_times_seen
    /\ pair_table = <<>>
    /\ task_table = <<>>
    /\ next_task_id = 1
    /\ last_active_im \in [Procs -> {NoImage} \cup Images]
    /\ last_active_im[2] = NoImage
    /\ pc = [p \in Procs |-> "idle"]
    /\ req = [p \in Procs |-> NoReq]
    /\ images = [p \in Procs |-> {}]
    /\ fresh = [p \in Procs |-> TRUE]
    /\ result = [p \in Procs |-> NoResult]
    /\ search = SearchIdle

NextPass ==
    \/ /\ result[1] = NoResult
       /\ \E n \in 1..NumImages, is_practice \in BOOLEAN :
            StartGetNImages(1, n, is_practice)
    \/ SampleStep(1)
    \/ ReturnImages(1)

SpecPass == InitPass /\ [][NextPass]_vars

\* Practices generated by one Get instance on such a pool.
NextPractice ==
    \/ \E n \in HitSizes : StartGenPractice(1, n)
    \/ SampleStep(1)
    \/ FinishGenTask(1)

SpecPractice == InitPass /\ [][NextPractice]_vars

\* An iteration of the loop in which image i is picked and passes the
\* probability draw.
SamplePick(p, i) == SampleDraw(p, FALSE) /\ last_active_im'[p] = i

\* The loop and the return are not interrupted, and the probability draw,
\* which does not depend on the image, passes again and again for every
\* image the scan keeps coming back to.
SpecPassLive ==
    /\ SpecPass
    /\ WF_vars(SampleStep(1))
    /\ WF_vars(ReturnImages(1))
    /\ \A i \in Images : SF_vars(SamplePick(1, i))

\* ------------------------------------------ the Design Builder on its own
\* The candidate lists, group sizes, targets and exclusion sets the search
\* is run on.
CandidatePairs(n) == {ab \in (1..n) \X (1..n) : ab[1] < ab[2]}

InitBuilder ==
    /\ NoWorkers
    /\ FreshDb
    /\ IdleProcs
    /\ \E n \in 1..MaxN, t \in GroupSizes, j \in 1..MaxJ :
         \E ims \in Orderings(1..n), obs \in SUBSET CandidatePairs(n) :
            /\ Cardinality(obs) <= MaxHistory
            /\ search = SearchStart(ims, t, j, obs)

BuilderStep ==
    /\ search.phase \in {"comb", "final"}
    /\ search' = SearchStep(search)
    /\ UNCHANGED <<dbVars, procVars, lifeVars>>

NextBuilder == BuilderStep

SpecBuilder == InitBuilder /\ [][NextBuilder]_vars

\* The two scenarios of the Design Builder: six candidates, pairs, every
\* image once, no history; four candidates, pairs, every image three times,
\* the pair of the first two images in the history.
ScenarioSix == [images |-> 1..6, t |-> 2, j |-> 1, obs |-> {}]

ScenarioFour == [images |-> 1..4, t |-> 2, j |-> 3, obs |-> {<<1, 2>>}]

InitScenarios ==
    /\ NoWorkers
    /\ FreshDb
    /\ IdleProcs
    /\ \E sc \in {ScenarioSix, ScenarioFour} :
         \E ims \in Orderings(sc.images) :
            search = SearchStart(ims, sc.t, sc.j, sc.obs)

SpecScenarios == InitScenarios /\ [][NextBuilder]_vars

\* The search on candidate lists in row-key order: every exclusion set is
\* tried, so another order of the list only renames the candidates.
InitRounds ==
    /\ NoWorkers
    /\ FreshDb
    /\ IdleProcs
    /\ \E n \in 1..MaxN, t \in GroupSizes, j \in 1..MaxJ :
         \E obs \in SUBSET CandidatePairs(n) :
            /\ Cardinality(obs) <= MaxHistory
            /\ search = SearchStart([k \in 1..n |-> k], t, j, obs)

SpecRounds == InitRounds /\ [][NextBuilder]_vars

\* The loop of gen_design runs on without being interrupted.
SpecRoundsLive == SpecRounds /\ WF_vars(BuilderStep)

\* ------------------------------------------- generate.utils.get_design
\* The state of the loops of get_design (utils.py 40-62), in the record of
\* the search: iocc is allvio, design is combs, the elements are 1..n.
GetDesignStart(n, t, j) ==
    [images |-> [k \in 1..n |-> k], n |-> n, t |-> t, j |-> j, ex0 |-> {},
     obs |-> {}, occ |-> [k \in 1..n |-> 0], design |-> <<>>,
     iocc |-> 0, c |-> IF t <= n THEN FirstComb(t) ELSE <<>>,
     phase |-> IF t <= n /\ t > 0 THEN "comb" ELSE "final",
     ok |-> FALSE, steps |-> 0]

\* utils.py 46-48: the continue belongs to the loop over the pairs of c, so
\* an observed pair never makes get_design skip the combination.
GetDesignPairSkips(st) == FALSE

RECURSIVE SumViolations(_, _)
SumViolations(st, idxs) ==
    IF idxs = {} THEN 0
    ELSE LET i == CHOOSE x \in idxs : TRUE
         IN  Max({0, st.occ[i] - st.j + 1}) + SumViolations(st, idxs \ {i})

\* utils.py 49-50: cvio, the violations the combination would bring.
GetDesignCvio(st) == SumViolations(st, Range(st.c))

\* utils.py 46-52: is the combination st.c accepted in round allvio?
GetDesignAccepts(st) ==
    /\ ~GetDesignPairSkips(st)
    /\ ~(GetDesignCvio(st) > st.iocc)

\* utils.py 53-57: record the accepted combination.
GetDesignAccept(st) ==
    [st EXCEPT !.obs = @ \cup TuplePairs(st.c),
               !.occ = [i \in DOMAIN @ |->
                          IF i \in Range(st.c) THEN @[i] + 1 ELSE @[i]],
               !.design = Append(@, st.c)]

\* utils.py 43-44: the next combination, the next round of range(t), or
\* the end of the loops.
GetDesignAdvance(st) ==
    IF HasNextComb(st.c, st.n)
    THEN [st EXCEPT !.c = NextComb(st.c, st.n)]
    ELSE IF st.iocc + 1 < st.t
         THEN [st EXCEPT !.iocc = @ + 1, !.c = FirstComb(st.t)]
         ELSE [st EXCEPT !.phase = "final"]

\* One iteration of the inner loop of get_design, or the test after the
\* loops (utils.py 60-62).
GetDesignStep(st) ==
    IF st.phase = "final"
    THEN [st EXCEPT !.phase = "returned", !.ok = SearchMinOcc(st) >= st.j]
    ELSE IF SearchMinOcc(st) = st.j
         THEN [st EXCEPT !.phase = "returned", !.ok = TRUE]
         ELSE LET st1 == IF GetDesignAccepts(st) THEN GetDesignAccept(st) ELSE st
              IN  [GetDesignAdvance(st1) EXCEPT !.steps = @ + 1]

InitUtils ==
    /\ NoWorkers
    /\ FreshDb
    /\ IdleProcs
    /\ \E n \in 1..MaxN, t \in GroupSizes, j \in 1..MaxJ :
         search = GetDesignStart(n, t, j)

UtilsStep ==
    /\ search.phase \in {"comb", "final"}
    /\ search' = GetDesignStep(search)
    /\ UNCHANGED <<dbVars, procVars, lifeVars>>

NextUtils == UtilsStep

SpecUtils == InitUtils /\ [][NextUtils]_vars

\* ------------------------------------------ the Block Assembler on its own
\* gen_task from line 1111 on, for the designs gen_design returns on small
\* pools and the block counts a caller can ask for.
BlockPoolSizes == {2, 3}

BlockCounts == {1, 2}

InitBlocks ==
    /\ NoWorkers
    /\ FreshDb
    /\ last_active_im = [p \in Procs |-> NoImage]
    /\ pc = [p \in Procs |-> IF p = 1 THEN "assembling" ELSE "idle"]
    /\ req = [p \in Procs |-> NoReq]
    /\ images = [p \in Procs |-> {}]
    /\ fresh = [p \in Procs |-> TRUE]
    /\ result = [p \in Procs |-> NoResult]
    /\ \E n \in BlockPoolSizes, t \in GroupSizes, j \in HitTargets :
         \E ims \in Orderings(1..n) :
            /\ search = SearchRun(SearchStart(ims, t, j, {}))
            /\ search.ok

\* Lines 1111-1160 of gen_task: the blocks, exp_seq and the returned value.
AssembleBlocks(p) ==
    /\ pc[p] = "assembling"
    /\ \E practice \in BOOLEAN, n_keep_blocks \in BlockCounts, n_reject_blocks \in BlockCounts :
         \E ksh \in Shuffles(search.design), rsh \in Shuffles(search.design) :
            \E order \in BlockOrders(n_keep_blocks + n_reject_blocks, RANDOMIZE_SEGMENT_ORDER) :
               result' = [result EXCEPT ![p] =
                            gen_task(search, next_task_id, practice, n_keep_blocks,
                                     n_reject_blocks, ksh, rsh, order)]
    /\ pc' = [pc EXCEPT ![p] = "idle"]
    /\ UNCHANGED <<dbVars, last_active_im, req, images, fresh, search, lifeVars>>

NextBlocks == AssembleBlocks(1)

SpecBlocks == InitBlocks /\ [][NextBlocks]_vars

\* ------------------------------------------- register_task, step by step
\* The tasks a caller hands to register_task: what gen_task returns for a
\* design of pairs on a small pool, as a real task or as a practice.
CallRegisterTask(p) ==
    /\ pc[p] = "idle"
    /\ next_task_id <= MaxTasks
    /\ next_task_id' = next_task_id + 1
    /\ \E n \in BlockPoolSizes, j \in HitTargets, practice \in BOOLEAN :
         LET st == SearchRun(SearchStart([k \in 1..n |-> k], 2, j, {}))
             sh == [tup_indices |-> [k \in DOMAIN st.design |-> k],
                    within |-> [k \in DOMAIN st.design |-> <<2, 1>>]]
         IN  /\ st.ok
             /\ result' = [result EXCEPT ![p] =
                              gen_task(st, next_task_id, practice, 1, 1, sh, sh,
                                       <<1, 2>>)]
    /\ pc' = [pc EXCEPT ![p] = "designed"]
    /\ UNCHANGED <<is_active, has_attr, num_times_seen, sampling_surplus,
                   pair_table, task_table, last_active_im, req, images, fresh,
                   search, lifeVars>>

\* Lines 1520-1534: the first loop of register_task builds image_list; with
\* check_ims an image that is not active is left out.
image_list(exp_seq, check_ims) ==
    SelectSeq(ConcatAll(ExpSeqTuples(exp_seq)),
              LAMBDA im : ~check_ims \/ is_active[im])

RegisterCollect(p) ==
    /\ pc[p] = "designed"
    /\ pc' = [pc EXCEPT ![p] = "registering"]
    /\ req' = [req EXCEPT ![p] =
                 [caller |-> "register_task", n |-> 0,
                  is_practice |-> result[p].is_practice, count |-> 0,
                  task_id |-> result[p].task_id,
                  image_list |-> image_list(result[p].exp_seq, TRUE),
                  done |-> 0]]
    /\ UNCHANGED <<dbVars, last_active_im, images, fresh, result, search, lifeVars>>

\* A slip in line 1537: the counter is set to one instead of incremented.
counter_inc_SetToOne(counter, img) == [counter EXCEPT ![img] = 1]

\* table.counter_inc(img, column): one atomic increment.
counter_inc(counter, img) == [counter EXCEPT ![img] = @ + 1]

\* Lines 1535-1537: one iteration of the second loop, for a real task.
RegisterInc(p) ==
    /\ pc[p] = "registering"
    /\ ~req[p].is_practice
    /\ req[p].done < Len(req[p].image_list)
    /\ num_times_seen' = counter_inc(num_times_seen, req[p].image_list[req[p].done + 1])
    /\ req' = [req EXCEPT ![p].done = @ + 1]
    /\ UNCHANGED <<is_active, has_attr, sampling_surplus, pair_table,
                   task_table, next_task_id, last_active_im, pc, images, fresh,
                   result, search, lifeVars>>

\* Lines 1538-1561: the task row and the pair rows are written.
RegisterPut(p) ==
    /\ pc[p] = "registering"
    /\ req[p].is_practice \/ req[p].done = Len(req[p].image_list)
    /\ task_table' =
         [k \in DOMAIN task_table \cup {req[p].task_id} |->
            IF k = req[p].task_id
            THEN TaskRow(req[p].is_practice, result[p].exp_seq, result[p].blocks)
            ELSE task_table[k]]
    /\ pair_table' =
         IF req[p].is_practice /\ ~STORE_PRACTICE_PAIRS
         THEN pair_table
         ELSE PutPairs(pair_table, PairList(result[p].exp_seq), req[p].task_id)
    /\ pc' = [pc EXCEPT ![p] = "idle"]
    /\ req' = [req EXCEPT ![p] = NoReq]
    /\ result' = [result EXCEPT ![p] = NoResult]
    /\ UNCHANGED <<is_active, has_attr, num_times_seen, sampling_surplus,
                   next_task_id, last_active_im, images, fresh, search, lifeVars>>

\* Worker processes register tasks concurrently on one database.
NextRegister ==
    \E p \in Procs :
        \/ CallRegisterTask(p)
        \/ RegisterCollect(p)
        \/ RegisterInc(p)
        \/ RegisterPut(p)

SpecRegister == Init /\ [][NextRegister]_vars

\* ------------------------------------------------- the life of a task
\* table.put(row, data): the columns given are written, the others stay.
table_put(table, row_key, data) ==
    [k \in DOMAIN table \cup {row_key} |->
        IF k # row_key THEN table[k]
        ELSE IF row_key \in DOMAIN table THEN data @@ table[row_key]
        ELSE data]

\* row.get(column, default)
row_get(row, column, default) ==
    IF column \in DOMAIN row THEN row[column] ELSE default

\* get_task_status and _get_task_status: the status code of a task.
get_task_status(table, task_id) ==
    IF task_id \notin DOMAIN table THEN "DOES_NOT_EXIST"
    ELSE LET task == table[task_id]
         IN  IF row_get(task, "is_practice", FALSE) THEN "IS_PRACTICE"
             ELSE IF row_get(task, "awaiting_serve", FALSE)
                  THEN (IF row_get(task, "awaiting_hit_group", FALSE)
                        THEN "AWAITING_HIT" ELSE "AWAITING_SERVE")
             ELSE IF row_get(task, "pending_completion", FALSE)
                  THEN "COMPLETION_PENDING"
             ELSE IF row_get(task, "pending_evaluation", FALSE)
                  THEN "EVALUATION_PENDING"
             ELSE IF row_get(task, "accepted", FALSE) THEN "ACCEPTED"
             ELSE IF row_get(task, "rejected", FALSE) THEN "REJECTED"
             ELSE "UNKNOWN_STATUS"

NoWorker == 0

\* task_served(task_id, worker_id); the put stamps its cells with the time
\* of the server.  The statistics of the worker are not part of the model.
TaskServed(task_id, worker_id) ==
    /\ task_id \in DOMAIN task_table
    /\ task_table' = table_put(task_table, task_id,
                                [worker_id |-> worker_id,
                                 pending_completion |-> TRUE,
                                 pending_completion_ts |-> now,
                                 awaiting_serve |-> FALSE])
    /\ UNCHANGED <<is_active, has_attr, num_times_seen, sampling_surplus,
                   pair_table, next_task_id, procVars, search, lifeVars>>

\* The click-choice trials of the response JSON: one trial per tuple of
\* every block, in the order of the blocks, with the answer of the worker
\* (a position of the tuple, or -1 for no answer).  Positions and tuple
\* indices are 1-based here.
ClickChoiceTrials(blocks, answers) ==
    LET trials == ConcatAll([b \in DOMAIN blocks |->
                    [x \in DOMAIN blocks[b].images |->
                       [action_type |-> blocks[b].type,
                        images |-> blocks[b].images[x],
                        image_idx_map |-> blocks[b].image_idx_map[x],
                        global_tup_idx |-> blocks[b].global_tup_idxs[x]]]])
    IN  [k \in DOMAIN trials |->
           [choice_idx |-> answers[k],
            choice |-> IF answers[k] = -1 THEN -1 ELSE trials[k].images[answers[k]]]
           @@ trials[k]]

\* The number of trials of a task.
NumTrials(blocks) == Len(ConcatAll([b \in DOMAIN blocks |-> blocks[b].images]))

\* The answers a worker can give to the trials of a task.
Answers(blocks) ==
    [1..NumTrials(blocks) -> {-1} \cup (1..Len(blocks[1].images[1]))]

\* A slip in line 1833: the position clicked is taken for the image index.
taskwide_im_idx_Position(block) == block.choice_idx

\* Line 1833: the task-wide index of the image chosen in a trial.
taskwide_im_idx(block) == block.image_idx_map[block.choice_idx]

\* Lines 1826-1837: contradiction_dict after the loop over the trials.
RECURSIVE contradiction_dict(_, _)
contradiction_dict(data, dict) ==
    IF data = <<>> THEN dict
    ELSE LET block == Head(data)
             global_tup_idx == block.global_tup_idx
         IN  contradiction_dict(
               Tail(data),
               IF block.choice # -1 /\ block.choice_idx # -1
               THEN (global_tup_idx :>
                       (row_get(dict, global_tup_idx, <<>>)
                          \o <<taskwide_im_idx(block)>>)) @@ dict
               ELSE dict)

\* Lines 1840-1845: num_contradictions.
num_contradictions(data) ==
    LET dict == contradiction_dict(data, <<>>)
    IN  Cardinality({key \in DOMAIN dict :
                       /\ Len(dict[key]) > 1
                       /\ dict[key][1] = dict[key][2]})

\* task_finished_from_json(resp_json), called by p for the task a worker
\* was served: the statistics of the response are returned to the caller
\* (frac_contradictions is num_contradictions / len(data)).  The row of the
\* task is left as it was: line 1881 hands the columns to table.put as
\* keyword arguments, which put does not take, and the except clause of
\* line 1882 swallows the error; with no user agent nothing else is put.
TaskFinishedFromJson(p, task_id, answers) ==
    /\ task_id \in DOMAIN task_table
    /\ row_get(task_table[task_id], "worker_id", NoWorker) # NoWorker
    /\ LET data == ClickChoiceTrials(task_table[task_id].blocks, answers)
       IN  result' = [result EXCEPT ![p] =
                        [kind |-> "finished", task_id |-> task_id,
                         response_json |-> data,
                         num_contradictions |-> num_contradictions(data)]
                          @@ NoResult]
    /\ UNCHANGED <<dbVars, last_active_im, pc, req, images, fresh, search,
                   lifeVars>>

\* Lines 2109-2110: the columns accept_task writes.
AcceptColumns == [pending_evaluation |-> FALSE, accepted |-> TRUE]

\* Lines 2185-2187: the columns reject_task writes (the reason left out).
RejectColumns == [pending_evaluation |-> FALSE, rejected |-> TRUE]

\* accept_task(task_id): a task that does not exist is left alone, any
\* other is accepted whatever its status.  The worker, image and win
\* tables it updates are not part of the model.
AcceptTask(task_id) ==
    /\ get_task_status(task_table, task_id) # "DOES_NOT_EXIST"
    /\ task_table' = table_put(task_table, task_id, AcceptColumns)
    /\ UNCHANGED <<is_active, has_attr, num_times_seen, sampling_surplus,
                   pair_table, next_task_id, procVars, search, lifeVars>>

\* reject_task(task_id)
RejectTask(task_id) ==
    /\ get_task_status(task_table, task_id) # "DOES_NOT_EXIST"
    /\ task_table' = table_put(task_table, task_id, RejectColumns)
    /\ UNCHANGED <<is_active, has_attr, num_times_seen, sampling_surplus,
                   pair_table, next_task_id, procVars, search, lifeVars>>

\* conf.TASK_COMPLETION_TIMEOUT, in seconds.
TASK_COMPLETION_TIMEOUT == 1

\* Lines 2270-2281: the tasks pending completion for longer than the timeout.
TimedOutTasks ==
    {k \in DOMAIN task_table :
        /\ row_get(task_table[k], "pending_completion", FALSE)
        /\ now - row_get(task_table[k], "pending_completion_ts", 0)
             > TASK_COMPLETION_TIMEOUT}

\* reset_timed_out_tasks(): the timed-out tasks are un-served.
ResetTimedOutTasks ==
    /\ task_table' =
         [k \in DOMAIN task_table |->
            IF k \in TimedOutTasks
            THEN [worker_id |-> NoWorker,
                  pending_completion |-> FALSE,
                  pending_completion_ts |-> now,
                  awaiting_serve |-> TRUE] @@ task_table[k]
            ELSE task_table[k]]
    /\ UNCHANGED <<is_active, has_attr, num_times_seen, sampling_surplus,
                   pair_table, next_task_id, procVars, search, lifeVars>>

\* A second passes on the clock of the server.
Tick ==
    /\ now < MaxTime
    /\ now' = now + 1
    /\ UNCHANGED <<dbVars, procVars, search, worker_table>>

\* One task from its registration on, with one worker.
NextLife ==
    \/ next_task_id = 1 /\ CallRegisterTask(1)
    \/ RegisterTask(1)
    \/ \E task_id \in DOMAIN task_table : TaskServed(task_id, 1)
    \/ \E task_id \in DOMAIN task_table :
         TaskFinishedFromJson(
           1, task_id, [k \in 1..NumTrials(task_table[task_id].blocks) |-> 1])
    \/ \E task_id \in DOMAIN task_table : AcceptTask(task_id)
    \/ \E task_id \in DOMAIN task_table : RejectTask(task_id)
    \/ ResetTimedOutTasks
    \/ Tick

SpecLife == Init /\ [][NextLife]_vars

\* A registered real task of one keep and one reject block, the keep copy
\* in the order of the design, the reject copy shuffled in any way.
InitFinish ==
    /\ NoWorkers
    /\ IdleProcs
    /\ search = SearchIdle
    /\ is_active = [i \in Images |-> TRUE]
    /\ has_attr = [i \in Images |-> TRUE]
    /\ sampling_surplus = [i \in Images |-> 0]
    /\ next_task_id = 2
    /\ \E n \in BlockPoolSizes, t \in GroupSizes, j \in HitTargets :
         LET st == SearchRun(SearchStart([k \in 1..n |-> k], t, j, {}))
             ksh == [tup_indices |-> [k \in DOMAIN st.design |-> k],
                     within |-> [k \in DOMAIN st.design |-> [m \in 1..t |-> m]]]
         IN  /\ st.ok
             /\ \E rsh \in Shuffles(st.design) :
                  LET res == gen_task(st, 1, FALSE, 1, 1, ksh, rsh, <<1, 2>>)
                  IN  /\ task_table = 1 :> TaskRow(FALSE, res.exp_seq, res.blocks)
                      /\ pair_table = PutPairs(<<>>, PairList(res.exp_seq), 1)
                      /\ num_times_seen =
                           [i \in Images |-> ImageListCount(res.exp_seq, FALSE, i)]

\* The task is served and the worker submits the answers, once.
NextFinish ==
    \/ TaskServed(1, 1)
    \/ /\ result[1] = NoResult
       /\ \E answers \in Answers(task_table[1].blocks) :
            TaskFinishedFromJson(1, 1, answers)

SpecFinish == InitFinish /\ [][NextFinish]_vars

\* ------------------------------------------------------------ worker bans
\* The durations, in seconds, a caller bans a worker for.
BanDurations == {1, 2}

\* naive_build_task, lines 55-56: a worker who is not in the table yet is
\* registered.
RegisterWorker(worker_id) ==
    /\ worker_id \notin DOMAIN worker_table
    /\ worker_table' = table_put(worker_table, worker_id,
                                  [passed_practice |-> FALSE,
                                   is_legacy |-> FALSE,
                                   is_banned |-> FALSE,
                                   is_banned_ts |-> now])
    /\ UNCHANGED <<dbVars, procVars, search, now>>

\* ban_worker(worker_id, duration): the put stamps its cells with the time
\* of the server.
BanWorker(worker_id, duration) ==
    /\ worker_table' = table_put(worker_table, worker_id,
                                  [is_banned |-> TRUE,
                                   is_banned_ts |-> now,
                                   ban_duration |-> duration])
    /\ UNCHANGED <<dbVars, procVars, search, now>>

\* Lines 2249-2255: ban_data, ban_date and ban_dur as worker_ban_expires_in
\* reads them.
BanData(worker_id) ==
    LET data == row_get(worker_table, worker_id, <<>>)
    IN  [is_banned |-> row_get(data, "is_banned", FALSE),
         ban_date |-> row_get(data, "is_banned_ts", 0),
         ban_dur |-> row_get(data, "ban_length", 0)]

\* worker_ban_expires_in(worker_id), called by process p; the value it
\* returns is kept with the time of the call.
WorkerBanExpiresIn(p, worker_id) ==
    /\ pc[p] = "idle"
    /\ LET ban == BanData(worker_id)
           cur_date == now
           lifted == ban.is_banned /\ (cur_date - ban.ban_date) > ban.ban_dur
           value == IF ~ban.is_banned \/ lifted THEN 0
                    ELSE (cur_date - ban.ban_date) - ban.ban_dur
       IN  /\ worker_table' =
                IF lifted
                THEN table_put(worker_table, worker_id,
                               [is_banned |-> FALSE, is_banned_ts |-> now,
                                ban_length |-> 0])
                ELSE worker_table
           /\ result' = [result EXCEPT ![p] =
                            [kind |-> "ban_expires_in", worker_id |-> worker_id,
                             value |-> value, at |-> now] @@ NoResult]
    /\ UNCHANGED <<dbVars, last_active_im, pc, req, images, fresh, search, now>>

\* One worker is registered, banned and asked about, as time passes.
NextBan ==
    \/ RegisterWorker(1)
    \/ \E duration \in BanDurations : BanWorker(1, duration)
    \/ WorkerBanExpiresIn(1, 1)
    \/ Tick

SpecBan == Init /\ [][NextBan]_vars

\* ===================================================================
\* Properties
\* ===================================================================
\* The canonical pairs of all tuples of a design.
DesignPairs(design) == UNION {TuplePairs(design[k]) : k \in DOMAIN design}

\* How many tuples of a design contain an image.
Occurrences(design, image) ==
    Cardinality({k \in DOMAIN design : image \in Range(design[k])})

SearchReturnedDesign == search.phase = "returned" /\ search.ok

\* C1: every design the Design Builder returns has no unordered pair of
\* images in more than one tuple, and no tuple of it contains a pair of the
\* exclusion set the run was started with.
C1_DesignPairsUnique ==
    SearchReturnedDesign =>
        /\ \A a, b \in DOMAIN search.design :
             a # b => TuplePairs(search.design[a]) \cap
                      TuplePairs(search.design[b]) = {}
        /\ DesignPairs(search.design) \cap search.ex0 = {}

\* C1 witness: a returned design of several tuples, built around a
\* non-empty exclusion set that rules out a pair of candidates.
C1_Witness ==
    /\ SearchReturnedDesign
    /\ Len(search.design) >= 3
    /\ search.ex0 # {}

\* C4: whenever the Design Builder returns a design, every one of the n
\* candidate images is in at least j tuples of it.
C4_OccurrenceFloor ==
    SearchReturnedDesign =>
        \A i \in 1..search.n :
            Occurrences(search.design, search.images[i]) >= search.j

\* C4 witness: a design returned for a target j >= 2, in which some image
\* occurs more often than j.
C4_Witness ==
    /\ SearchReturnedDesign
    /\ search.j >= 2
    /\ \E i \in 1..search.n :
         Occurrences(search.design, search.images[i]) > search.j

\* C5: when the rounds of the Design Builder are exhausted while an image
\* is still below j, gen_design returns the failure value without any
\* tuple, gen_task returns that failure, and nothing is left to register.
C5_InfeasibleIsFailure ==
    \A p \in Procs :
        (/\ result[p].caller = "gen_task"
         /\ \E i \in DOMAIN result[p].occ : result[p].occ[i] < result[p].j)
        => /\ result[p].kind = "None"
           /\ result[p].tuples = <<>>
           /\ result[p].exp_seq = <<>>
           /\ result[p].blocks = <<>>
           /\ pc[p] # "designed"

\* C5 witness: gen_task came back with the failure value after a search
\* that had accepted tuples but left an image below j.
C5_Witness ==
    \E p \in Procs :
        /\ result[p].caller = "gen_task"
        /\ result[p].kind = "None"
        /\ \E i \in DOMAIN result[p].occ :
             result[p].occ[i] > 0 /\ result[p].occ[i] < result[p].j

\* The pairs of the tuples of a registered task.
TaskPairs(task_id) == DesignPairs(task_table[task_id].tuples)

RealTasks == {k \in DOMAIN task_table : ~task_table[k].is_practice}

\* C2: after any sequence of non-overlapping gen_task / register_task
\* cycles for non-practice tasks, no unordered pair of images is in tuples
\* of two different registered tasks.
C2_PairsUniqueAcrossTasks ==
    \A a, b \in RealTasks : a # b => TaskPairs(a) \cap TaskPairs(b) = {}

\* C3: under every interleaving of concurrent gen_task / register_task
\* requests, every pair record belongs to the tuples of at most one
\* registered non-practice task.
C3_PairRecordOfOneTask ==
    \A k \in DOMAIN pair_table :
        Cardinality({a \in RealTasks : k \in TaskPairs(a)}) <= 1

\* C7: for every candidate image set S, _get_preexisting_pairs returns
\* exactly the pairs {a, b} within S that have a record in the pair table.
C7_PreexistingPairsExact ==
    \A S \in SUBSET Images :
        \A ims \in Orderings(S) :
            _get_preexisting_pairs(ims) =
                {k \in DOMAIN pair_table : k[1] \in S /\ k[2] \in S}

\* C8: every list get_n_images(n, ...) returns has exactly n entries, all
\* different, each an active image that matches the attribute filter.
C8_ExactlyNDistinctActive ==
    \A p \in Procs :
        result[p].kind = "images" =>
            /\ Len(result[p].images) = result[p].n
            /\ Cardinality(Range(result[p].images)) = result[p].n
            /\ Range(result[p].images) \subseteq Pool

\* C8 witness: a real-task pass returned two or more images out of a
\* larger pool, after paying down the surplus credit of some image.
C8_Witness ==
    /\ result[1].kind = "images"
    /\ ~result[1].is_practice
    /\ result[1].n >= 2
    /\ result[1].n < Cardinality(Pool)
    /\ \E i \in Images : sampling_surplus[i] < num_times_seen[i]

\* The n a call entered in this step was made with.
EnteredN(p) == IF pc'[p] = "sampling" THEN req'[p].n ELSE result'[p].n

\* C9: a call of get_n_images or gen_design with fewer than n matching
\* active images returns the failure value at once and changes nothing: no
\* image accepted, no surplus credit decremented, the cursor not advanced,
\* no tuple produced.
C9_InsufficientPoolNoEffect ==
    [][\A p \in Procs :
          (/\ pc[p] = "idle"
           /\ <<pc[p], req[p], result[p]>>' # <<pc[p], req[p], result[p]>>
           /\ EnteredN(p) > Cardinality(Pool))
          => /\ pc'[p] = "idle"
             /\ result'[p].kind = "None"
             /\ result'[p].images = <<>>
             /\ result'[p].tuples = <<>>
             /\ images'[p] = {}
             /\ UNCHANGED <<dbVars, last_active_im>>]_vars

\* C9 witness: gen_design came back with the failure value for a pool that
\* is too small, on a Get instance whose cursor had been advanced and with
\* surplus credit outstanding.
C9_Witness ==
    /\ result[1].kind = "None"
    /\ result[1].caller = "gen_design"
    /\ result[1].n > Cardinality(Pool)
    /\ Pool # {}
    /\ last_active_im[1] # NoImage
    /\ \E i \in Pool : sampling_surplus[i] > 0

\* C10: a practice-mode sampling pass leaves every surplus credit
\* unchanged and accepts every image that passes the probability draw.
C10_PracticeIgnoresSurplus ==
    [][\A p \in Procs :
          (pc[p] = "sampling" /\ req[p].is_practice)
          => /\ sampling_surplus' = sampling_surplus
             /\ (req[p].n = req[p].count /\ last_active_im'[p] # last_active_im[p])
                   => last_active_im'[p] \in images'[p]]_vars

\* How often an image occurs in a list of tuples.
ImageCount(tuples, image) ==
    LET flat == ConcatAll(tuples)
    IN  Cardinality({k \in DOMAIN flat : flat[k] = image})

\* The tuples of the blocks of the given types, block after block.
BlockTuples(blocks, types) ==
    ConcatAll([b \in DOMAIN blocks |->
                 IF blocks[b].type \in types THEN blocks[b].images ELSE <<>>])

\* C11 as stated: in every task gen_task returns, all blocks together hold
\* every image exactly as often as the tuples of the design do.
C11_BlocksEqualDesign ==
    \A p \in Procs :
        result[p].kind = "task" =>
            \A i \in Images :
                ImageCount(BlockTuples(result[p].blocks, {KEEP_BLOCK, REJECT_BLOCK}), i)
                    = ImageCount(result[p].tuples, i)

\* C11 amended: in every task gen_task returns, the keep blocks together
\* hold every image exactly as often as the tuples of the design do, and so
\* do the reject blocks; all blocks together hold it twice as often.
C11_EachCategoryEqualsDesign ==
    \A p \in Procs :
        result[p].kind = "task" =>
            \A i \in Images :
                /\ ImageCount(BlockTuples(result[p].blocks, {KEEP_BLOCK}), i)
                     = ImageCount(result[p].tuples, i)
                /\ ImageCount(BlockTuples(result[p].blocks, {REJECT_BLOCK}), i)
                     = ImageCount(result[p].tuples, i)
                /\ ImageCount(BlockTuples(result[p].blocks, {KEEP_BLOCK, REJECT_BLOCK}), i)
                     = 2 * ImageCount(result[p].tuples, i)

\* C11 witness: a task of two keep blocks and one reject block, assembled
\* from a design in which some image is in two tuples.
C11_Witness ==
    /\ result[1].kind = "task"
    /\ Len(result[1].blocks) = 3
    /\ Cardinality({b \in DOMAIN result[1].blocks : result[1].blocks[b].type = KEEP_BLOCK}) = 2
    /\ \E i \in Images : ImageCount(result[1].tuples, i) = 2

\* C12: between two resets the surplus credit of an image goes down by
\* exactly one each time a sampling pass picks the image while the credit
\* is positive, and by nothing else; a real-task pass accepts an image only
\* when its credit is not positive.  So an active image that activate_images
\* left with credit n > 0 is accepted only after n further picks, and an
\* image with credit zero is accepted by the first pick.
C12_ResetCreditPaidDownFirst ==
    [][\A i \in Images :
          /\ sampling_surplus'[i] # sampling_surplus[i] =>
                \/ is_active'[i] /\ sampling_surplus'[i] = num_times_seen[i]
                \/ /\ sampling_surplus[i] > 0
                   /\ sampling_surplus'[i] = sampling_surplus[i] - 1
                   /\ \E p \in Procs : pc[p] = "sampling" /\ last_active_im'[p] = i
          /\ \A p \in Procs :
                (/\ pc[p] = "sampling"
                 /\ ~req[p].is_practice
                 /\ i \in images'[p] \ images[p])
                => /\ sampling_surplus[i] <= 0
                   /\ is_active[i]
          /\ \A p \in Procs :
                (/\ pc[p] = "sampling" /\ pc'[p] = "sampling"
                 /\ ~req[p].is_practice
                 /\ req[p].n = req[p].count
                 /\ is_active' = is_active
                 /\ sampling_surplus' = sampling_surplus
                 /\ last_active_im'[p] = i
                 /\ sampling_surplus[i] = 0)
                => i \in images'[p]]_vars

\* C12 witness: a real-task pass has returned an image that had been seen
\* before and whose credit, set by activate_images, was paid down to zero.
C12_Witness ==
    /\ result[1].kind = "images"
    /\ ~result[1].is_practice
    /\ \E i \in Range(result[1].images) :
          num_times_seen[i] > 0 /\ sampling_surplus[i] = 0

\* C16: in a real-task pass every iteration of the sampling loop either
\* fails the probability draw and changes neither the result nor any
\* credit, or, the credit of the picked image being positive, leaves the
\* result as it is and takes exactly one off that credit, or, the credit
\* not being positive, adds the image to the result and changes no credit.
C16_RealPassOneOfTwo ==
    [][\A p \in Procs :
          (pc[p] = "sampling" /\ pc'[p] = "sampling" /\ ~req[p].is_practice)
          => LET im_id == last_active_im'[p]
                 sd == sampling_surplus[im_id]
             IN  \/ /\ req[p].n < req[p].count
                    /\ images'[p] = images[p]
                    /\ sampling_surplus' = sampling_surplus
                 \/ /\ sd > 0
                    /\ images'[p] = images[p]
                    /\ sampling_surplus' = [sampling_surplus EXCEPT ![im_id] = sd - 1]
                 \/ /\ ~(sd > 0)
                    /\ images'[p] = images[p] \cup {im_id}
                    /\ sampling_surplus' = sampling_surplus]_vars

\* C16 witness: a real-task pass without failing draws (n equals the pool
\* size) that has accepted one image and has paid down the credit of the
\* image it picked last instead of accepting it.
C16_Witness ==
    /\ pc[1] = "sampling"
    /\ ~req[1].is_practice
    /\ req[1].n = req[1].count
    /\ images[1] # {}
    /\ last_active_im[1] \notin images[1]
    /\ sampling_surplus[last_active_im[1]] < num_times_seen[last_active_im[1]]

\* C13: for six candidates in any order, t = 2, j = 1 and no history, the
\* Design Builder returns a design of exactly three pairs, no two of which
\* share an image, and which together hold all six images.
C13_SixImagesThreeDisjointPairs ==
    (search.n = 6 /\ search.phase = "returned") =>
        /\ search.ok
        /\ Len(search.design) = 3
        /\ \A a \in DOMAIN search.design : Cardinality(Range(search.design[a])) = 2
        /\ \A a, b \in DOMAIN search.design :
             a # b => Range(search.design[a]) \cap Range(search.design[b]) = {}
        /\ UNION {Range(search.design[a]) : a \in DOMAIN search.design} = 1..6

\* C13 witness: the design returned for a candidate list that is not in
\* row-key order.
C13_Witness ==
    /\ search.n = 6
    /\ search.phase = "returned"
    /\ search.ok
    /\ search.images[1] = 6
    /\ search.images[2] = 3

NumCombs(n, t) == Cardinality({S \in SUBSET (1..n) : Cardinality(S) = t})

\* C18: the search of the Design Builder ends, with a design or with the
\* failure value, after it has examined at most (t + j) * C(n, t)
\* combinations.
C18_SearchTerminates ==
    /\ <>(search.phase = "returned")
    /\ [](search.steps <= (search.t + search.j) * NumCombs(search.n, search.t))

\* C18 witness: a search that examined every combination in every round and
\* ended with the failure value.
C18_Witness ==
    /\ search.phase = "returned"
    /\ ~search.ok
    /\ search.n >= 3
    /\ search.steps = (search.t + search.j) * NumCombs(search.n, search.t)

\* C19 as stated: the round number iocc runs from the group size t up to
\* t + j.
C19_RoundsFromGroupSize ==
    search.phase = "comb" =>
        search.iocc >= search.t /\ search.iocc <= search.t + search.j

\* The strictly increasing index tuples of length t over 1..n, and their
\* lexicographic order.
IndexCombs(n, t) ==
    {z \in [1..t -> 1..n] : \A a, b \in 1..t : a < b => z[a] < z[b]}

LexLess(x, y) ==
    \E k \in DOMAIN x : x[k] < y[k] /\ \A m \in 1..(k - 1) : x[m] = y[m]

LexNext(x, y, n, t) ==
    LexLess(x, y) /\ ~\E z \in IndexCombs(n, t) : LexLess(x, z) /\ LexLess(z, y)

LexFirst(x, n, t) == ~\E z \in IndexCombs(n, t) : LexLess(z, x)

LexLast(x, n, t) == ~\E z \in IndexCombs(n, t) : LexLess(x, z)

\* C19 amended: the round number iocc takes the successive values 0, 1, ...
\* up to t + j - 1; every round starts at the lexicographically first
\* size-t combination of candidate indices, goes from each combination to
\* its lexicographic successor, and ends after the last one.
C19_RoundsFromZero ==
    [][/\ search.phase = "comb" =>
            /\ search.iocc \in 0..(search.t + search.j - 1)
            /\ search.steps = 0 =>
                 search.iocc = 0 /\ LexFirst(search.c, search.n, search.t)
       /\ (search.phase = "comb" /\ search'.phase = "comb") =>
            \/ /\ search'.iocc = search.iocc
               /\ LexNext(search.c, search'.c, search.n, search.t)
            \/ /\ search'.iocc = search.iocc + 1
               /\ search'.iocc <= search.t + search.j - 1
               /\ LexLast(search.c, search.n, search.t)
               /\ LexFirst(search'.c, search.n, search.t)
       /\ (search.phase = "comb" /\ search'.phase = "final") =>
            /\ search.iocc = search.t + search.j - 1
            /\ LexLast(search.c, search.n, search.t)]_vars

\* C19 witness: the search has gone through all t + j rounds of a list of
\* three or more candidates.
C19_Witness ==
    /\ search.phase = "final"
    /\ search.iocc = search.t + search.j - 1
    /\ search.n >= 3

\* C20: a combination is accepted in round iocc only if none of its members
\* has an occurrence counter greater than iocc; during round iocc no
\* counter exceeds iocc + 1; in a returned design no image is in more than
\* t + j tuples.
C20_OccurrenceCap ==
    [][/\ Len(search'.design) > Len(search.design) =>
            \A k \in DOMAIN search.c : search.occ[search.c[k]] <= search.iocc
       /\ \A i \in DOMAIN search'.occ : search'.occ[i] <= search'.iocc + 1
       /\ (search'.phase = "returned" /\ search'.ok) =>
            \A i \in 1..search'.n :
                /\ Occurrences(search'.design, search'.images[i]) <= search'.t + search'.j
                /\ Occurrences(search'.design, search'.images[i]) - search'.j <= search'.t]_vars

\* C20 witness: in a round after the first, an image has reached the cap
\* iocc + 1 of that round.
C20_Witness ==
    /\ search.phase = "comb"
    /\ search.iocc >= 1
    /\ \E i \in DOMAIN search.occ : search.occ[i] = search.iocc + 1

\* C15: every design get_design(n, t, j) returns has no pair of elements
\* in more than one subset, and every one of the n elements is in at least
\* j subsets.
C15_UtilsDesignPairsOnce ==
    SearchReturnedDesign =>
        /\ \A a, b \in DOMAIN search.design :
             a # b => TuplePairs(search.design[a]) \cap
                      TuplePairs(search.design[b]) = {}
        /\ \A i \in 1..search.n : Occurrences(search.design, i) >= search.j

FirstOccurrence(tuples, image) ==
    LET flat == ConcatAll(tuples)
    IN  Min({k \in DOMAIN flat : flat[k] = image})

\* The entries of image_idx_map at the positions an image has in the blocks.
MapEntries(blocks, image) ==
    UNION {UNION {{blocks[b].image_idx_map[x][y] :
                     y \in {z \in DOMAIN blocks[b].images[x] :
                              blocks[b].images[x][z] = image}} :
                  x \in DOMAIN blocks[b].images} :
           b \in DOMAIN blocks}

\* C21: in every task gen_task returns, image_idx_map has one entry per
\* image position of every tuple of every block, and the entry at the
\* position of an image is the number of images of the design that occur
\* first before that image does (the images are numbered 0, 1, 2, ... in
\* order of first occurrence across the tuple list); an image has one index
\* in all its keep and reject views.
C21_IndexMapIsFirstOccurrenceOrder ==
    \A p \in Procs :
        result[p].kind = "task" =>
            LET design == result[p].tuples
                blocks == result[p].blocks
                ims == Range(ConcatAll(design))
            IN  /\ \A b \in DOMAIN blocks :
                     /\ DOMAIN blocks[b].image_idx_map = DOMAIN blocks[b].images
                     /\ \A x \in DOMAIN blocks[b].images :
                          DOMAIN blocks[b].image_idx_map[x] = DOMAIN blocks[b].images[x]
                /\ \A a \in ims :
                     MapEntries(blocks, a) =
                       {Cardinality({c \in ims : FirstOccurrence(design, c)
                                                   < FirstOccurrence(design, a)})}

\* C21 witness: a task whose design does not list the images in the order
\* of their identifiers and one of whose blocks shows a tuple with its
\* images in another order than the design has them.
C21_Witness ==
    /\ result[1].kind = "task"
    /\ \E a, c \in Range(ConcatAll(result[1].tuples)) :
         /\ a < c
         /\ FirstOccurrence(result[1].tuples, c) < FirstOccurrence(result[1].tuples, a)
    /\ \E b \in DOMAIN result[1].blocks :
         \E x \in DOMAIN result[1].blocks[b].images :
            result[1].blocks[b].images[x]
              # result[1].tuples[result[1].blocks[b].global_tup_idxs[x]]

\* The global_tup_idxs of the blocks of one type, block after block.
BlockTupIdxs(blocks, type) ==
    ConcatAll([b \in DOMAIN blocks |->
                 IF blocks[b].type = type THEN blocks[b].global_tup_idxs ELSE <<>>])

\* C22: in every task gen_task returns, the keep blocks together refer to
\* each position of the design exactly once and so do the reject blocks; a
\* block has one global_tup_idxs entry per tuple, and the tuple it shows at
\* an entry g is a permutation of the tuple at position g of the design.
C22_EachCategoryIsShuffledDesign ==
    \A p \in Procs :
        result[p].kind = "task" =>
            LET design == result[p].tuples
                blocks == result[p].blocks
            IN  /\ \A type \in {KEEP_BLOCK, REJECT_BLOCK} :
                     LET idxs == BlockTupIdxs(blocks, type)
                     IN  /\ Len(idxs) = Len(design)
                         /\ \A g \in DOMAIN design :
                              Cardinality({k \in DOMAIN idxs : idxs[k] = g}) = 1
                /\ \A b \in DOMAIN blocks :
                     /\ DOMAIN blocks[b].global_tup_idxs = DOMAIN blocks[b].images
                     /\ \A x \in DOMAIN blocks[b].images :
                          LET g == blocks[b].global_tup_idxs[x]
                          IN  /\ g \in DOMAIN design
                              /\ Len(blocks[b].images[x]) = Len(design[g])
                              /\ Range(blocks[b].images[x]) = Range(design[g])

\* C22 witness: a task of several tuples in which the keep copy and the
\* reject copy list the tuples in different orders, neither in the order of
\* the design.
C22_Witness ==
    /\ result[1].kind = "task"
    /\ Len(result[1].tuples) >= 2
    /\ BlockTupIdxs(result[1].blocks, KEEP_BLOCK) # BlockTupIdxs(result[1].blocks, REJECT_BLOCK)
    /\ BlockTupIdxs(result[1].blocks, KEEP_BLOCK) # [k \in DOMAIN result[1].tuples |-> k]
    /\ BlockTupIdxs(result[1].blocks, REJECT_BLOCK) # [k \in DOMAIN result[1].tuples |-> k]

\* The blocks of one type, in the order the task has them.
BlocksOfType(blocks, type) ==
    SelectSeq(blocks, LAMBDA blk : blk.type = type)

\* C23: with block-order randomization off, the block sequence of a task
\* starts with a keep block and alternates keep, reject while both
\* categories have blocks left, the blocks of the longer category follow at
\* the end, and the blocks of one category are in the order in which the
\* tuple list was cut: the k-th block of a category of m blocks holds the
\* k-th of the m chunks (by its number of tuples).
C23_KeepFirstAlternating ==
    \A p \in Procs :
        (result[p].kind = "task" /\ ~RANDOMIZE_SEGMENT_ORDER) =>
            LET blocks == result[p].blocks
                n_tuples == Len(result[p].tuples)
                keep == BlocksOfType(blocks, KEEP_BLOCK)
                rej == BlocksOfType(blocks, REJECT_BLOCK)
                both == Min({Len(keep), Len(rej)})
            IN  /\ Len(keep) > 0 => blocks[1].type = KEEP_BLOCK
                /\ \A b \in DOMAIN blocks :
                     blocks[b].type =
                        IF b <= 2 * both
                        THEN (IF b % 2 = 1 THEN KEEP_BLOCK ELSE REJECT_BLOCK)
                        ELSE IF Len(keep) > both THEN KEEP_BLOCK ELSE REJECT_BLOCK
                /\ \A k \in DOMAIN keep :
                     Len(keep[k].images) =
                        (k * n_tuples) \div Len(keep) - ((k - 1) * n_tuples) \div Len(keep)
                /\ \A k \in DOMAIN rej :
                     Len(rej[k].images) =
                        (k * n_tuples) \div Len(rej) - ((k - 1) * n_tuples) \div Len(rej)

\* C23 witness: a task of one keep block and two reject blocks of different
\* sizes; the second reject block follows at the end.
C23_Witness ==
    /\ result[1].kind = "task"
    /\ Len(result[1].blocks) = 3
    /\ result[1].blocks[3].type = REJECT_BLOCK
    /\ result[1].blocks[2].type = REJECT_BLOCK
    /\ Len(result[1].blocks[2].images) # Len(result[1].blocks[3].images)

\* The tuple slots an image occupies in the registered real tasks ks.
RECURSIVE RegisteredSlots(_, _)
RegisteredSlots(ks, image) ==
    IF ks = {} THEN 0
    ELSE LET k == CHOOSE x \in ks : TRUE
         IN  ImageCount(task_table[k].tuples, image)
               + RegisteredSlots(ks \ {k}, image)

\* The increments a registration in flight has made for an image.
IncrementsInFlight(p, image) ==
    IF pc[p] = "registering"
    THEN Cardinality({k \in 1..req[p].done : req[p].image_list[k] = image})
    ELSE 0

\* C24: under any interleaving of register_task calls on active images, the
\* exposure count of an image is the number of tuple slots it has in the
\* registered real tasks, plus the increments of the registrations in
\* flight (none when no call is running); a step of a practice
\* registration changes no exposure count, and no step decreases one.
C24_ExposureCountsSlots ==
    /\ [](\A i \in Images :
            num_times_seen[i] = RegisteredSlots(RealTasks, i)
                                  + IncrementsInFlight(1, i)
                                  + IncrementsInFlight(2, i))
    /\ [][/\ \A i \in Images : num_times_seen'[i] >= num_times_seen[i]
          /\ \A p \in Procs :
               (pc[p] \in {"designed", "registering"} /\ result[p].is_practice
                  /\ (pc'[p] # pc[p] \/ req'[p] # req[p]))
                 => num_times_seen' = num_times_seen]_vars

\* C24 witness: two registrations of real tasks are in flight at the same
\* time, each with some increments made and some to make.
C24_Witness ==
    \A p \in Procs :
        /\ pc[p] = "registering"
        /\ ~req[p].is_practice
        /\ 0 < req[p].done
        /\ req[p].done < Len(req[p].image_list)

\* y follows x in the cycle of the matching active images in row-key order.
FollowsInCycle(x, y) ==
    /\ y \in Pool
    /\ IF x < y
       THEN ~\E k \in Pool : x < k /\ k < y
       ELSE /\ ~\E k \in Pool : k > x
            /\ ~\E k \in Pool : k < y

\* The generator of process p yields in this step.
Yields(p) ==
    /\ pc[p] = "sampling"
    /\ pc'[p] = "sampling"
    /\ <<last_active_im[p], fresh[p], images[p]>>' # <<last_active_im[p], fresh[p], images[p]>>

\* C25: on a fixed pool every identifier the scanner yields is the one that
\* follows the identifier yielded before it in the cycle of the matching
\* active images, also when the two were yielded by different generators of
\* the Get instance; the first identifier ever yielded is the first of the
\* pool.  Any c consecutive yields are therefore the c images of the pool,
\* each once.
C25_ScannerCycles ==
    [][\A p \in Procs :
          Yields(p) =>
             /\ last_active_im[p] = NoImage => last_active_im'[p] = Min(Pool)
             /\ last_active_im[p] # NoImage =>
                   /\ last_active_im[p] \in Pool
                   /\ FollowsInCycle(last_active_im[p], last_active_im'[p])
                   /\ Cardinality(Pool) > 1 => last_active_im'[p] # last_active_im[p]]_vars

\* C25 witness: in a pass that began in the middle of the pool, the
\* generator has yielded the last image of the pool and then, wrapping
\* around, the first.
C25_Witness ==
    /\ pc[1] = "sampling"
    /\ Cardinality(Pool) >= 3
    /\ last_active_im[1] = Min(Pool)
    /\ Max(Pool) \in images[1]
    /\ Min(Pool) \notin images[1]

\* C26: while gen_task generates a practice, no step of its sampling pass
\* changes the surplus credit of an image.
C26_PracticeGenerationKeepsCredit ==
    [][\A p \in Procs :
          (pc[p] = "sampling" /\ req[p].caller = "gen_practice")
             => sampling_surplus' = sampling_surplus]_vars

\* A task has gone through register_task, task_served and
\* task_finished_from_json and is not a practice.
FinishedRealTask(task_id) ==
    /\ task_id \in DOMAIN task_table
    /\ ~task_table[task_id].is_practice
    /\ row_get(task_table[task_id], "worker_id", NoWorker) # NoWorker
    /\ \E p \in Procs : /\ result[p].kind = "finished"
                        /\ result[p].task_id = task_id

\* C28: when accept_task is applied to a real task that was registered,
\* served and finished, get_task_status reports ACCEPTED for it afterwards;
\* when reject_task is applied, it reports REJECTED.
C28_StatusReflectsLatestOperation ==
    [][\A task_id \in DOMAIN task_table :
          FinishedRealTask(task_id) =>
             /\ (~row_get(task_table[task_id], "accepted", FALSE)
                   /\ row_get(task_table'[task_id], "accepted", FALSE))
                  => get_task_status(task_table', task_id) = "ACCEPTED"
             /\ (~row_get(task_table[task_id], "rejected", FALSE)
                   /\ row_get(task_table'[task_id], "rejected", FALSE))
                  => get_task_status(task_table', task_id) = "REJECTED"]_vars

ContradictedTuples(data) ==
    {g \in {data[k].global_tup_idx : k \in DOMAIN data} :
        \E a, b \in DOMAIN data :
           /\ data[a].global_tup_idx = g
           /\ data[b].global_tup_idx = g
           /\ data[a].action_type = KEEP_BLOCK
           /\ data[b].action_type = REJECT_BLOCK
           /\ data[a].choice_idx # -1
           /\ data[b].choice_idx # -1
           /\ data[a].image_idx_map[data[a].choice_idx]
                = data[b].image_idx_map[data[b].choice_idx]}

\* The design tuples of which the worker chose the same image to keep and
\* to reject.
SameImageTuples(data) ==
    {g \in {data[k].global_tup_idx : k \in DOMAIN data} :
        \E a, b \in DOMAIN data :
           /\ data[a].global_tup_idx = g
           /\ data[b].global_tup_idx = g
           /\ data[a].action_type = KEEP_BLOCK
           /\ data[b].action_type = REJECT_BLOCK
           /\ data[a].choice # -1
           /\ data[a].choice = data[b].choice}

\* C27: the number of contradictions task_finished_from_json computes is
\* the number of design tuples answered in both presentations with choices
\* that image_idx_map sends to the same task-wide index, which are the
\* tuples of which the same image was chosen to keep and to reject; tuples
\* answered once, never, or with two different images do not count.
C27_ContradictionsCounted ==
    \A p \in Procs :
        result[p].kind = "finished" =>
            LET data == result[p].response_json
            IN  /\ result[p].num_contradictions
                     = Cardinality(ContradictedTuples(data))
                /\ ContradictedTuples(data) = SameImageTuples(data)

\* C27 witness: a response with a contradiction made by clicking different
\* positions, a tuple answered with two different images and a tuple
\* answered in one presentation only.
C27_Witness ==
    /\ result[1].kind = "finished"
    /\ LET data == result[1].response_json
       IN  /\ result[1].num_contradictions = 1
           /\ \E a, b \in DOMAIN data :
                /\ a # b
                /\ data[a].global_tup_idx = data[b].global_tup_idx
                /\ data[a].choice # -1
                /\ data[a].choice = data[b].choice
                /\ data[a].choice_idx # data[b].choice_idx
           /\ \E a, b \in DOMAIN data :
                /\ a # b
                /\ data[a].global_tup_idx = data[b].global_tup_idx
                /\ data[a].choice # -1
                /\ data[b].choice # -1
                /\ data[a].choice # data[b].choice
           /\ \E a, b \in DOMAIN data :
                /\ a # b
                /\ data[a].global_tup_idx = data[b].global_tup_idx
                /\ data[a].choice # -1
                /\ data[b].choice = -1

\* C30: a call of worker_ban_expires_in for a worker whom ban_worker banned
\* for d seconds lifts the ban and returns 0 when more than d seconds have
\* passed since the ban, and otherwise leaves the ban in place and returns
\* a remaining time that is not 0.
C30_BanLastsItsDuration ==
    [][\A worker_id \in DOMAIN worker_table :
          (/\ row_get(worker_table[worker_id], "is_banned", FALSE)
           /\ result'[1] # result[1]
           /\ result'[1].kind = "ban_expires_in"
           /\ result'[1].worker_id = worker_id)
             => IF now - worker_table[worker_id].is_banned_ts
                     > worker_table[worker_id].ban_duration
                THEN /\ ~worker_table'[worker_id].is_banned
                     /\ result'[1].value = 0
                ELSE /\ worker_table'[worker_id].is_banned
                     /\ result'[1].value # 0]_vars

====
